---- MODULE Spec2Model ----
(***************************************************************************)
(* Clinical annotation interface (Streamlit): a model of src/app.py (the   *)
(* session state machine: setup screen, main annotation interface) and of  *)
(* src/utils.py (JSON load / validate / save, per-annotator annotation     *)
(* storage and the span highlighter).                                      *)
(*                                                                         *)
(* A JSON object is a TLA+ record whose DOMAIN is the set of keys present  *)
(* ("k" \in DOMAIN d models Python's `"k" in d`).  A file's content is the *)
(* JSON value it holds.  Python's 0-based indices are kept in              *)
(* current_index and in span offsets; sequences are 1-based, so notes[i]   *)
(* of the source is notes[i + 1] here.                                     *)
(***************************************************************************)
EXTENDS Integers, Sequences, FiniteSets, TLC

VARIABLES
    files,            \* the data/ directory: file name -> stored JSON value or NoFile
    clock,            \* datetime.now(), read by save_annotation_to_note
    current_index,    \* st.session_state.current_index
    data,             \* st.session_state.data
    annotator_id,     \* st.session_state.annotator_id
    keywords,         \* st.session_state.keywords
    setup_complete,   \* st.session_state.setup_complete
    file_path,        \* st.session_state.file_path
    uploaded_file,    \* value of the st.file_uploader widget
    message,          \* what the last script run reported (st.success / st.error / exception)
    hl_text,          \* highlight_text argument: text
    hl_keywords,      \* highlight_text argument: keywords
    hl_evidence,      \* highlight_text argument: evidence
    hl_out            \* highlight_text result (NotRun before the call)

session == <<current_index, data, annotator_id, keywords, setup_complete,
             file_path, uploaded_file, message>>
hl_vars == <<hl_text, hl_keywords, hl_evidence, hl_out>>
vars == <<files, clock, current_index, data, annotator_id, keywords,
          setup_complete, file_path, uploaded_file, message,
          hl_text, hl_keywords, hl_evidence, hl_out>>

(***************************************************************************)
(* Bounds of the model.                                                    *)
(***************************************************************************)
\* number of Submit Annotation presses (distinct timestamps) explored
MaxClock == 2
\* longest text handed to highlight_text
MaxTextLen == 4
\* keyword entries plus evidence entries handed to highlight_text
MaxEntries == 2

(***************************************************************************)
(* Values.                                                                 *)
(***************************************************************************)
None == [none |-> TRUE]            \* Python None (data, uploaded_file)
NoFile == [missing |-> TRUE]       \* os.path.exists(path) is False
NoPath == "None"                   \* file_path = None
NoMessage == [kind |-> "none"]

FileNames == {"f1.json", "f2.json"}
\* what the annotator may type in the Annotator ID field
AnnotatorInputs == {"ann1", "ann2"}

Min(S) == CHOOSE x \in S : \A y \in S : x <= y

\* A string is a sequence of characters.
Whitespace == {" ", "\n", "\t"}

RECURSIVE lstrip(_)
lstrip(s) == IF s # <<>> /\ Head(s) \in Whitespace THEN lstrip(Tail(s)) ELSE s

RECURSIVE rstrip(_)
rstrip(s) ==
    IF s # <<>> /\ s[Len(s)] \in Whitespace
    THEN rstrip(SubSeq(s, 1, Len(s) - 1))
    ELSE s

\* str.strip()
strip(s) == rstrip(lstrip(s))

\* str.split("\n"): the lines of s (always at least one, possibly empty)
RECURSIVE split_lines(_, _)
split_lines(s, cur) ==
    IF s = <<>> THEN <<cur>>
    ELSE IF Head(s) = "\n" THEN <<cur>> \o split_lines(Tail(s), <<>>)
    ELSE split_lines(Tail(s), Append(cur, Head(s)))

\* [kw.strip() for kw in keywords_edit.split("\n") if kw.strip()]
RECURSIVE strip_nonblank(_)
strip_nonblank(lines) ==
    IF lines = <<>> THEN <<>>
    ELSE IF strip(Head(lines)) # <<>>
         THEN <<strip(Head(lines))>> \o strip_nonblank(Tail(lines))
         ELSE strip_nonblank(Tail(lines))

parse_keywords(keywords_edit) == strip_nonblank(split_lines(keywords_edit, <<>>))

(***************************************************************************)
(* Uploadable JSON documents.                                              *)
(***************************************************************************)
NoteA == [id |-> "n1", text |-> "t1", question |-> "q1", predicted_answer |-> "Yes"]
NoteB == [id |-> "n2", text |-> "t2", question |-> "q2", predicted_answer |-> "No",
          evidence |-> [list |-> FALSE, v |-> <<"ev">>]]
\* a second note carrying NoteA's id
NoteA2 == [id |-> "n1", text |-> "t3", question |-> "q3", predicted_answer |-> "No",
           evidence |-> [list |-> TRUE, v |-> <<"ev">>]]
\* a note without question and predicted_answer
NoteBad == [id |-> "n3", text |-> "t4"]

DocTwo == [keywords |-> << <<"a">> >>, notes |-> <<NoteA, NoteB>>]
DocDup == [notes |-> <<NoteA, NoteA2>>]
DocEmpty == [keywords |-> <<>>, notes |-> <<>>]
DocNoNotes == [keywords |-> << <<"a">> >>]
DocMissing == [notes |-> <<NoteA, NoteBad>>]

\* the files the annotator can pick in the uploader (uploaded_file.name, content)
Uploads ==
    { [name |-> "f1.json", content |-> DocTwo],
      [name |-> "f1.json", content |-> DocDup],
      [name |-> "f1.json", content |-> DocEmpty],
      [name |-> "f1.json", content |-> DocNoNotes],
      [name |-> "f2.json", content |-> DocMissing] }

\* what the annotator may enter in the annotation form
Corrections ==
    { [corrected_answer |-> "Yes", corrected_explanation |-> "e1", comment |-> ""],
      [corrected_answer |-> "No", corrected_explanation |-> "e2", comment |-> "c1"] }

\* what the annotator may type in the keywords text area
KeywordEdits ==
    { <<" ", "a", " ", "\n", " ", "\n", "<">> }

(***************************************************************************)
(* src/utils.py                                                            *)
(***************************************************************************)
required_fields == <<"id", "text", "question", "predicted_answer">>

\* a validation that looks for "id" only
first_missing_id_only(note) == IF "id" \notin DOMAIN note THEN 1 ELSE 0

\* index (1-based in required_fields) of the first required field the note lacks, 0 if none
first_missing(note) ==
    LET miss == {k \in 1..Len(required_fields) : required_fields[k] \notin DOMAIN note}
    IN IF miss = {} THEN 0 ELSE Min(miss)

\* lines 47-50: evidence defaults to [], a non-list is wrapped in a list
ensure_evidence(note) ==
    IF "evidence" \notin DOMAIN note
    THEN note @@ [evidence |-> [list |-> TRUE, v |-> <<>>]]
    ELSE IF ~note.evidence.list
         THEN [note EXCEPT !.evidence = [list |-> TRUE, v |-> @.v]]
         ELSE note

\* the loop of lines 42-50 from note k on: the first failure, or the notes normalised
RECURSIVE validate_notes(_, _)
validate_notes(notes, k) ==
    IF k > Len(notes) THEN [ok |-> TRUE, notes |-> <<>>]
    ELSE IF first_missing(notes[k]) # 0
         THEN [ok |-> FALSE,
               error |-> [exc |-> "ValueError", index |-> k - 1,
                          field |-> required_fields[first_missing(notes[k])]]]
         ELSE LET rest == validate_notes(notes, k + 1)
              IN IF rest.ok
                 THEN [ok |-> TRUE, notes |-> <<ensure_evidence(notes[k])>> \o rest.notes]
                 ELSE rest

\* load_json_data applied to the JSON value stored in the file
load_json_data(content) ==
    IF "notes" \notin DOMAIN content
    THEN [ok |-> FALSE, error |-> [exc |-> "ValueError", key |-> "notes"]]
    ELSE LET r == validate_notes(content.notes, 1)
         IN IF ~r.ok THEN r
            ELSE LET d == [content EXCEPT !.notes = r.notes]
                 IN [ok |-> TRUE,
                     data |-> IF "keywords" \notin DOMAIN d
                              THEN d @@ [keywords |-> <<>>]
                              ELSE d]

\* a save that writes nothing
save_json_data_skipped(fs, filepath, d) == fs

\* save_json_data: the file at filepath now holds d
save_json_data(fs, filepath, d) == [fs EXCEPT ![filepath] = d]

\* note["annotations"][annotator_id] = {...}, creating the dict when absent
set_annotation(note, annotator, entry) ==
    IF "annotations" \notin DOMAIN note
    THEN note @@ [annotations |-> (annotator :> entry)]
    ELSE [note EXCEPT !.annotations = (annotator :> entry) @@ @]

\* save_annotation_to_note: the first note whose id is note_id gets the entry
save_annotation_to_note(d, note_id, annotator, correction, now) ==
    LET hits == {k \in 1..Len(d.notes) : d.notes[k].id = note_id}
        entry == [corrected_answer |-> correction.corrected_answer,
                  corrected_explanation |-> correction.corrected_explanation,
                  comment |-> correction.comment,
                  timestamp |-> now]
    IN IF hits = {} THEN d
       ELSE [d EXCEPT !.notes[Min(hits)] = set_annotation(@, annotator, entry)]

\* note.get("annotations", {}) has an entry for the annotator
has_annotation(note, annotator) ==
    "annotations" \in DOMAIN note /\ annotator \in DOMAIN note.annotations

(***************************************************************************)
(* src/utils.py: highlight_text.  Offsets are Python's (0-based, half-open *)
(* ranges); a span is [start, end, type].                                  *)
(***************************************************************************)
Alphabet == {"a", "A", " ", "<"}

\* \w of the re module, over the alphabet
is_word(c) == c \in {"a", "A", "_"}

\* re.IGNORECASE compares characters by their case-folded form
lower(c) == IF c = "A" THEN "a" ELSE c

\* text[a:b]
slice(text, a, b) == SubSeq(text, a + 1, b)

\* the escaped literal (re.escape) matches at offset pos, ignoring case
literal_at(text, pat, pos) ==
    /\ pos + Len(pat) <= Len(text)
    /\ \A k \in 1..Len(pat) : lower(text[pos + k]) = lower(pat[k])

\* \b at offset pos: exactly one of the characters around pos is a word character
word_boundary(text, pos) ==
    LET before == pos >= 1 /\ is_word(text[pos])
        after == pos < Len(text) /\ is_word(text[pos + 1])
    IN before # after

\* the pattern of line 115 (whole_word FALSE) or of line 123 (TRUE) matches at pos
pattern_at(text, pat, whole_word, pos) ==
    /\ literal_at(text, pat, pos)
    /\ whole_word => /\ word_boundary(text, pos)
                      /\ word_boundary(text, pos + Len(pat))

\* re.finditer for a non-empty literal: leftmost matches, scanning on from each
\* match's end
RECURSIVE finditer(_, _, _, _)
finditer(text, pat, whole_word, pos) ==
    IF pos >= Len(text) THEN <<>>
    ELSE IF pattern_at(text, pat, whole_word, pos)
         THEN <<[start |-> pos, end |-> pos + Len(pat)]>>
              \o finditer(text, pat, whole_word, pos + Len(pat))
         ELSE finditer(text, pat, whole_word, pos + 1)

\* the matches as spans of one type
RECURSIVE tag(_, _)
tag(matches, type) ==
    IF matches = <<>> THEN <<>>
    ELSE <<[start |-> Head(matches).start, end |-> Head(matches).end, type |-> type]>>
         \o tag(Tail(matches), type)

\* lines 112-117
RECURSIVE evidence_spans(_, _)
evidence_spans(text, evidence) ==
    IF evidence = <<>> THEN <<>>
    ELSE IF Head(evidence) = <<>>
         THEN evidence_spans(text, Tail(evidence))
         ELSE tag(finditer(text, Head(evidence), FALSE, 0), "evidence")
              \o evidence_spans(text, Tail(evidence))

\* an overlap test that sees only matches lying inside an evidence span
overlaps_evidence_contained(match, spans) ==
    \E k \in 1..Len(spans) :
        /\ spans[k].type = "evidence"
        /\ spans[k].start <= match.start
        /\ match.end <= spans[k].end

\* lines 125-130: the match overlaps a span of type evidence
overlaps_evidence(match, spans) ==
    \E k \in 1..Len(spans) :
        /\ spans[k].type = "evidence"
        /\ ~(match.end <= spans[k].start \/ match.start >= spans[k].end)

\* lines 124-132 for the matches of one keyword
RECURSIVE keep_keyword_matches(_, _)
keep_keyword_matches(matches, spans) ==
    IF matches = <<>> THEN spans
    ELSE keep_keyword_matches(
             Tail(matches),
             IF overlaps_evidence(Head(matches), spans)
             THEN spans
             ELSE Append(spans, [start |-> Head(matches).start,
                                 end |-> Head(matches).end,
                                 type |-> "keyword"]))

\* lines 120-132: spans is the list built so far
RECURSIVE keyword_spans(_, _, _)
keyword_spans(text, kws, spans) ==
    IF kws = <<>> THEN spans
    ELSE IF Head(kws) = <<>>
         THEN keyword_spans(text, Tail(kws), spans)
         ELSE keyword_spans(text, Tail(kws),
                            keep_keyword_matches(finditer(text, Head(kws), TRUE, 0),
                                                 spans))

\* line 134: a stable sort by start
RECURSIVE insert_by_start(_, _)
insert_by_start(sorted, span) ==
    IF sorted = <<>> THEN <<span>>
    ELSE IF Head(sorted).start <= span.start
         THEN <<Head(sorted)>> \o insert_by_start(Tail(sorted), span)
         ELSE <<span>> \o sorted

RECURSIVE sort_by_start(_, _)
sort_by_start(spans, sorted) ==
    IF spans = <<>> THEN sorted
    ELSE sort_by_start(Tail(spans), insert_by_start(sorted, Head(spans)))

\* _escape_html, character by character
escape_char(c) ==
    IF c = "&" THEN <<"&", "a", "m", "p", ";">>
    ELSE IF c = "<" THEN <<"&", "l", "t", ";">>
    ELSE IF c = ">" THEN <<"&", "g", "t", ";">>
    ELSE IF c = "\"" THEN <<"&", "q", "u", "o", "t", ";">>
    ELSE <<c>>

RECURSIVE escape_html(_)
escape_html(text) ==
    IF text = <<>> THEN <<>> ELSE escape_char(Head(text)) \o escape_html(Tail(text))

\* the markup put around a span's text (lines 144-153)
span_markup(type, span_text) ==
    <<IF type = "evidence" THEN "<span evidence>" ELSE "<span keyword>">>
    \o span_text \o <<"</span>">>

\* lines 139-155 from span k on.  acc.result is the list of pieces joined,
\* acc.emitted the ranges of text they were cut from, acc.last_end the cursor
\* and acc.cursor its successive values
RECURSIVE walk(_, _, _, _)
walk(text, spans, k, acc) ==
    IF k > Len(spans) THEN acc
    ELSE LET span == spans[k]
             gap == span.start > acc.last_end
             r1 == IF gap
                   THEN acc.result \o escape_html(slice(text, acc.last_end, span.start))
                   ELSE acc.result
             e1 == IF gap
                   THEN Append(acc.emitted, [start |-> acc.last_end, end |-> span.start])
                   ELSE acc.emitted
         IN walk(text, spans, k + 1,
                 [result |-> r1 \o span_markup(span.type,
                                               escape_html(slice(text, span.start, span.end))),
                  emitted |-> Append(e1, [start |-> span.start, end |-> span.end]),
                  last_end |-> span.end,
                  cursor |-> Append(acc.cursor, span.end)])

\* line 161: str.replace("\n", "<br>") on the joined result
RECURSIVE replace_newlines(_)
replace_newlines(html) ==
    IF html = <<>> THEN <<>>
    ELSE <<IF Head(html) = "\n" THEN "<br>" ELSE Head(html)>>
         \o replace_newlines(Tail(html))

highlight_text(text, kws, evidence) ==
    IF text = <<>>
    THEN [run |-> TRUE, html |-> <<>>, spans |-> <<>>, emitted |-> <<>>, cursor |-> <<0>>]
    ELSE LET found == keyword_spans(text, kws, evidence_spans(text, evidence))
             spans == sort_by_start(found, <<>>)
             w == walk(text, spans, 1,
                       [result |-> <<>>, emitted |-> <<>>, last_end |-> 0,
                        cursor |-> <<0>>])
             tail == w.last_end < Len(text)
         IN [run |-> TRUE,
             html |-> replace_newlines(
                          IF tail
                          THEN w.result \o escape_html(slice(text, w.last_end, Len(text)))
                          ELSE w.result),
             spans |-> spans,
             emitted |-> IF tail
                         THEN Append(w.emitted, [start |-> w.last_end, end |-> Len(text)])
                         ELSE w.emitted,
             cursor |-> w.cursor]

(***************************************************************************)
(* src/app.py: the setup screen.  One action is one user interaction: the  *)
(* script run it triggers and, after st.rerun(), the run that follows.     *)
(* io_ok says whether the data/ directory can be written during the run.   *)
(***************************************************************************)
\* an upload written whether or not a file of that name is stored
write_always(fs, upload) == [fs EXCEPT ![upload.name] = upload.content]

\* lines 77-79: the upload is written only when no file of that name is stored
write_if_absent(fs, upload) ==
    IF fs[upload.name] = NoFile
    THEN [fs EXCEPT ![upload.name] = upload.content]
    ELSE fs

\* lines 69-92, run by every setup-screen script run
upload_handling(fs, d, kws, fp, upload, io_ok) ==
    LET same == [files |-> fs, data |-> d, keywords |-> kws, file_path |-> fp]
    IN IF upload = None
       THEN same @@ [message |-> NoMessage]
       ELSE IF write_if_absent(fs, upload) # fs /\ ~io_ok
       THEN same @@ [message |-> [kind |-> "error", error |-> [exc |-> "OSError"]]]
       ELSE LET fs2 == write_if_absent(fs, upload)
                r == load_json_data(fs2[upload.name])
            IN IF r.ok
               THEN [files |-> fs2,
                     data |-> r.data,
                     keywords |-> r.data.keywords,
                     file_path |-> upload.name,
                     message |-> [kind |-> "success", loaded |-> Len(r.data.notes)]]
               ELSE [files |-> fs2, data |-> d, keywords |-> kws, file_path |-> fp,
                     message |-> [kind |-> "error", error |-> r.error]]

\* lines 151-153: rendering the main interface indexes notes with current_index
main_render(d, index) ==
    IF index < Len(d.notes)
    THEN NoMessage
    ELSE [kind |-> "exception", error |-> [exc |-> "IndexError"]]

\* the main interface's widgets are on the page
Rendered == setup_complete /\ current_index < Len(data.notes)

\* the annotator picks a file in the uploader
UploadFile(upload, io_ok) ==
    /\ ~setup_complete
    /\ LET r == upload_handling(files, data, keywords, file_path, upload, io_ok)
       IN /\ uploaded_file' = upload
          /\ files' = r.files
          /\ data' = r.data
          /\ keywords' = r.keywords
          /\ file_path' = r.file_path
          /\ message' = r.message
    /\ UNCHANGED <<clock, current_index, annotator_id, setup_complete, hl_vars>>

\* the annotator edits the Annotator ID field (lines 53-58)
SetAnnotatorId(a, io_ok) ==
    /\ ~setup_complete
    /\ annotator_id' = a
    /\ LET r == upload_handling(files, data, keywords, file_path, uploaded_file, io_ok)
       IN /\ files' = r.files
          /\ data' = r.data
          /\ keywords' = r.keywords
          /\ file_path' = r.file_path
          /\ message' = r.message
    /\ UNCHANGED <<clock, current_index, setup_complete, uploaded_file, hl_vars>>

\* "Start Annotation" (lines 99-106); on success the rerun renders the main
\* interface, where the uploader is no longer on the page
StartAnnotation(io_ok) ==
    /\ ~setup_complete
    /\ LET r == upload_handling(files, data, keywords, file_path, uploaded_file, io_ok)
       IN /\ files' = r.files
          /\ data' = r.data
          /\ keywords' = r.keywords
          /\ file_path' = r.file_path
          /\ IF annotator_id = ""
             THEN /\ message' = [kind |-> "error", error |-> [text |-> "Please enter your Annotator ID"]]
                  /\ UNCHANGED <<setup_complete, uploaded_file>>
             ELSE IF r.data = None
             THEN /\ message' = [kind |-> "error", error |-> [text |-> "Please upload a JSON file"]]
                  /\ UNCHANGED <<setup_complete, uploaded_file>>
             ELSE /\ setup_complete' = TRUE
                  /\ uploaded_file' = None
                  /\ message' = main_render(r.data, current_index)
    /\ UNCHANGED <<clock, current_index, annotator_id, hl_vars>>

\* "Reset and Overwrite File" (lines 134-143), then the rerun's upload handling
ResetAndOverwrite(io_ok) ==
    /\ ~setup_complete
    /\ uploaded_file # None
    /\ LET r == upload_handling(files, data, keywords, file_path, uploaded_file, io_ok)
       IN IF ~io_ok
          THEN /\ files' = r.files
               /\ data' = r.data
               /\ keywords' = r.keywords
               /\ file_path' = r.file_path
               /\ message' = [kind |-> "exception", error |-> [exc |-> "OSError"]]
          ELSE LET fs2 == [r.files EXCEPT ![uploaded_file.name] = uploaded_file.content]
                   r2 == upload_handling(fs2, None, r.keywords, r.file_path,
                                         uploaded_file, io_ok)
               IN /\ files' = r2.files
                  /\ data' = r2.data
                  /\ keywords' = r2.keywords
                  /\ file_path' = r2.file_path
                  /\ message' = r2.message
    /\ UNCHANGED <<clock, current_index, annotator_id, setup_complete, uploaded_file,
                   hl_vars>>

(***************************************************************************)
(* src/app.py: the main annotation interface.                              *)
(***************************************************************************)
\* "Update Keywords" (lines 178-186)
UpdateKeywords(keywords_edit, io_ok) ==
    /\ Rendered
    /\ keywords' = parse_keywords(keywords_edit)
    /\ data' = [data EXCEPT !.keywords = keywords']
    /\ IF io_ok
       THEN /\ files' = save_json_data(files, file_path, data')
            /\ message' = main_render(data', current_index)
       ELSE /\ files' = files
            /\ message' = [kind |-> "exception", error |-> [exc |-> "OSError"]]
    /\ UNCHANGED <<clock, current_index, annotator_id, setup_complete, file_path,
                   uploaded_file, hl_vars>>

\* "Change Setup" (lines 190-192)
ChangeSetup ==
    /\ Rendered
    /\ setup_complete' = FALSE
    /\ message' = NoMessage
    /\ UNCHANGED <<files, clock, current_index, data, annotator_id, keywords,
                   file_path, uploaded_file, hl_vars>>

\* go_to_note (lines 27-29)
go_to_note(index) == current_index' = index

\* a note button of the sidebar (lines 209-231): every note but the current one
SelectNote ==
    /\ Rendered
    /\ \E index \in 0..(Len(data.notes) - 1) :
          /\ index # current_index
          /\ go_to_note(index)
    /\ message' = main_render(data, current_index')
    /\ UNCHANGED <<files, clock, data, annotator_id, keywords, setup_complete,
                   file_path, uploaded_file, hl_vars>>

\* "Previous" (lines 239-242)
Previous ==
    /\ Rendered
    /\ current_index # 0
    /\ current_index' = current_index - 1
    /\ message' = main_render(data, current_index')
    /\ UNCHANGED <<files, clock, data, annotator_id, keywords, setup_complete,
                   file_path, uploaded_file, hl_vars>>

\* "Next" (lines 245-248)
NextNote ==
    /\ Rendered
    /\ ~(current_index >= Len(data.notes) - 1)
    /\ current_index' = current_index + 1
    /\ message' = main_render(data, current_index')
    /\ UNCHANGED <<files, clock, data, annotator_id, keywords, setup_complete,
                   file_path, uploaded_file, hl_vars>>

\* "Submit Annotation" (lines 388-411)
SubmitAnnotation(correction, io_ok) ==
    /\ Rendered
    /\ clock < MaxClock
    /\ clock' = clock + 1
    /\ data' = save_annotation_to_note(data, data.notes[current_index + 1].id,
                                       annotator_id, correction, clock')
    /\ IF io_ok
       THEN /\ files' = save_json_data(files, file_path, data')
            /\ current_index' = IF current_index < Len(data.notes) - 1
                                THEN current_index + 1
                                ELSE current_index
            /\ message' = main_render(data', current_index')
       ELSE /\ files' = files
            /\ current_index' = current_index
            /\ message' = [kind |-> "exception", error |-> [exc |-> "OSError"]]
    /\ UNCHANGED <<annotator_id, keywords, setup_complete, file_path, uploaded_file,
                   hl_vars>>

\* a new browser session: session state as lines 13-24 initialise it
NewSession ==
    /\ current_index' = 0
    /\ data' = None
    /\ annotator_id' = ""
    /\ keywords' = <<>>
    /\ setup_complete' = FALSE
    /\ file_path' = NoPath
    /\ uploaded_file' = None
    /\ message' = NoMessage
    /\ UNCHANGED <<files, clock, hl_vars>>

NotRun == [run |-> FALSE]

\* an empty data/ directory and the session state of lines 13-24
SessionInit ==
    /\ files = [f \in FileNames |-> NoFile]
    /\ clock = 0
    /\ current_index = 0
    /\ data = None
    /\ annotator_id = ""
    /\ keywords = <<>>
    /\ setup_complete = FALSE
    /\ file_path = NoPath
    /\ uploaded_file = None
    /\ message = NoMessage

Init ==
    /\ SessionInit
    /\ hl_text = <<>>
    /\ hl_keywords = <<>>
    /\ hl_evidence = <<>>
    /\ hl_out = NotRun

Next ==
    \/ \E upload \in Uploads, io_ok \in BOOLEAN : UploadFile(upload, io_ok)
    \/ \E a \in AnnotatorInputs, io_ok \in BOOLEAN : SetAnnotatorId(a, io_ok)
    \/ \E io_ok \in BOOLEAN : StartAnnotation(io_ok)
    \/ \E io_ok \in BOOLEAN : ResetAndOverwrite(io_ok)
    \/ \E keywords_edit \in KeywordEdits, io_ok \in BOOLEAN :
          UpdateKeywords(keywords_edit, io_ok)
    \/ ChangeSetup
    \/ SelectNote
    \/ Previous
    \/ NextNote
    \/ \E correction \in Corrections, io_ok \in BOOLEAN :
          SubmitAnnotation(correction, io_ok)
    \/ NewSession

Spec == Init /\ [][Next]_vars

(***************************************************************************)
(* highlight_text on its own: every text, keyword list and evidence list   *)
(* within the bounds, then the call.                                       *)
(***************************************************************************)
Texts == UNION {[1..n -> Alphabet] : n \in 0..MaxTextLen}

\* keyword and evidence entries: empty, blank, a word, a two-letter word in
\* mixed case, and words ending in a space, ending in punctuation and
\* starting with punctuation
Entries ==
    {<<>>, <<" ">>, <<"a">>, <<"A", "a">>, <<"a", " ">>, <<"a", "<">>, <<"<", "a">>}

InitHL ==
    /\ SessionInit
    /\ hl_text \in Texts
    /\ \E nk \in 0..MaxEntries, ne \in 0..MaxEntries :
          /\ nk + ne <= MaxEntries
          /\ hl_keywords \in [1..nk -> Entries]
          /\ hl_evidence \in [1..ne -> Entries]
    /\ hl_out = NotRun

HighlightCall ==
    /\ hl_out = NotRun
    /\ hl_out' = highlight_text(hl_text, hl_keywords, hl_evidence)
    /\ UNCHANGED <<files, clock, session, hl_text, hl_keywords, hl_evidence>>

NextHL == HighlightCall

SpecHL == InitHL /\ [][NextHL]_vars

(***************************************************************************)
(* Properties.                                                             *)
(***************************************************************************)
Annotators == {"ann1", "ann2"}

\* the step is a "Submit Annotation" / "Update Keywords" press
SubmitStep(io_ok) == \E correction \in Corrections : SubmitAnnotation(correction, io_ok)
UpdateStep(io_ok) == \E keywords_edit \in KeywordEdits : UpdateKeywords(keywords_edit, io_ok)

\* the annotator's entry on the note is the same before and after the step
SameEntry(before, after, annotator) ==
    /\ has_annotation(before, annotator) <=> has_annotation(after, annotator)
    /\ has_annotation(before, annotator) =>
          after.annotations[annotator] = before.annotations[annotator]

\* the annotator's entry on the note holds the submitted correction
HoldsCorrection(note, annotator, correction) ==
    /\ has_annotation(note, annotator)
    /\ note.annotations[annotator].corrected_answer = correction.corrected_answer
    /\ note.annotations[annotator].corrected_explanation = correction.corrected_explanation
    /\ note.annotations[annotator].comment = correction.comment

\* C1: a submit by annotator a while note n is displayed makes
\* notes[n].annotations[a] hold exactly the submitted corrected_answer,
\* corrected_explanation and comment (so the entry always holds a's most recent
\* submit on n: a's submits on other notes leave it alone), and leaves every
\* other annotator's entry on note n unchanged.
C1_SubmitReplacesOwnEntry ==
    [][\A correction \in Corrections, io_ok \in BOOLEAN :
          SubmitAnnotation(correction, io_ok) =>
             LET n == current_index + 1
             IN /\ HoldsCorrection(data'.notes[n], annotator_id, correction)
                /\ \A b \in Annotators \ {annotator_id} :
                      SameEntry(data.notes[n], data'.notes[n], b)
                /\ \A m \in (1..Len(data.notes)) \ {n} :
                      SameEntry(data.notes[m], data'.notes[m], annotator_id)]_vars

\* C2: a submit while the note at index i = current_index is displayed stores
\* the correction under notes[i].annotations[annotator_id] and changes the
\* annotations of no note at another index, whatever the loaded document
\* (two notes may carry the same id).
C2_StoredUnderDisplayedNote ==
    [][\A correction \in Corrections, io_ok \in BOOLEAN :
          SubmitAnnotation(correction, io_ok) =>
             LET i == current_index + 1
             IN /\ HoldsCorrection(data'.notes[i], annotator_id, correction)
                /\ data'.notes[i].annotations[annotator_id].timestamp = clock'
                /\ \A m \in (1..Len(data.notes)) \ {i} :
                      \A b \in Annotators : SameEntry(data.notes[m], data'.notes[m], b)]_vars

\* C3: when writing the backing file fails during Submit Annotation or Update
\* Keywords, the session's document, keyword list and current_index are what
\* they were before the action.
C3_IOFailureLeavesStateUnchanged ==
    [][(SubmitStep(FALSE) \/ UpdateStep(FALSE)) =>
          /\ data' = data
          /\ keywords' = keywords
          /\ current_index' = current_index]_vars

\* the document lacks "notes" or one of its notes lacks a required field
Malformed(content) ==
    \/ "notes" \notin DOMAIN content
    \/ \E k \in 1..Len(content.notes) :
          \E f \in {"id", "text", "question", "predicted_answer"} :
             f \notin DOMAIN content.notes[k]

\* C4: an upload whose load is attempted reports an error exactly when the
\* stored document lacks "notes" or a note lacks id, text, question or
\* predicted_answer (a ValueError); when it does, data, keywords and file_path
\* keep their values and setup_complete is not set.
C4_MalformedLoadAborts ==
    [][\A upload \in Uploads, io_ok \in BOOLEAN :
          (UploadFile(upload, io_ok) /\ (io_ok \/ files[upload.name] # NoFile)) =>
             LET stored == files'[upload.name]
             IN /\ (message'.kind = "error") <=> Malformed(stored)
                /\ Malformed(stored) =>
                      /\ message'.error.exc = "ValueError"
                      /\ data' = data
                      /\ keywords' = keywords
                      /\ file_path' = file_path
                      /\ ~setup_complete']_vars

\* a malformed file was uploaded under another name while a document was
\* loaded: the error is shown and the loaded document is still the session's
C4_Witness ==
    /\ ~setup_complete
    /\ uploaded_file = [name |-> "f2.json", content |-> DocMissing]
    /\ message = [kind |-> "error",
                  error |-> [exc |-> "ValueError", index |-> 1, field |-> "question"]]
    /\ data # None
    /\ file_path = "f1.json"
    /\ keywords # <<>>

C6_PersistedWholesale ==
    [][(SubmitStep(TRUE) \/ UpdateStep(TRUE)) => files'[file_path'] = data']_vars

\* keywords were updated and an annotation submitted, and the file holds both
C6_Witness ==
    /\ setup_complete
    /\ data.keywords = << <<"a">>, <<"<">> >>
    /\ \E k \in 1..Len(data.notes) : has_annotation(data.notes[k], annotator_id)
    /\ "evidence" \in DOMAIN data.notes[1]
    /\ files[file_path] = data

Range(seq) == {seq[k] : k \in 1..Len(seq)}

KeywordSpans == {sp \in Range(hl_out.spans) : sp.type = "keyword"}
EvidenceSpans == {sp \in Range(hl_out.spans) : sp.type = "evidence"}

\* half-open ranges with a non-empty intersection
Intersect(x, y) == x.start < y.end /\ y.start < x.end

\* C7: no span recorded with type keyword intersects a recorded evidence span,
\* and the output marks exactly the recorded spans.
C7_EvidencePriority ==
    hl_out.run =>
       /\ \A kw \in KeywordSpans, ev \in EvidenceSpans : ~Intersect(kw, ev)
       /\ Cardinality({k \in 1..Len(hl_out.html) : hl_out.html[k] = "<span keyword>"})
             = Cardinality({k \in 1..Len(hl_out.spans) : hl_out.spans[k].type = "keyword"})

\* a whole-word keyword occurrence lies partly inside an evidence span and was
\* discarded
C7_Witness ==
    /\ hl_out.run
    /\ \E k \in 1..Len(hl_keywords) :
          /\ hl_keywords[k] # <<>>
          /\ \E m \in Range(finditer(hl_text, hl_keywords[k], TRUE, 0)) :
                /\ \E ev \in EvidenceSpans :
                      /\ Intersect(m, ev)
                      /\ ~(ev.start <= m.start /\ m.end <= ev.end)
                /\ \A kw \in KeywordSpans : ~(kw.start = m.start /\ kw.end = m.end)

\* the occurrence [from, to) has a non-word character or a string edge on both sides
Bounded(text, from, to) ==
    /\ from = 0 \/ ~is_word(text[from])
    /\ to = Len(text) \/ ~is_word(text[to + 1])

\* C8: a case-insensitive occurrence of a keyword is recorded as a keyword
\* span if and only if it is bounded on both sides by a non-word character or
\* a string edge and overlaps no evidence span; stated for the keywords that
\* are not blank, whatever their first and last characters.
C8_WholeWordIff ==
    hl_out.run =>
       \A k \in 1..Len(hl_keywords) :
          LET kw == hl_keywords[k]
          IN strip(kw) # <<>> =>
                \A pos \in 0..(Len(hl_text) - 1) :
                   literal_at(hl_text, kw, pos) =>
                      LET occ == [start |-> pos, end |-> pos + Len(kw)]
                      IN (\E sp \in KeywordSpans : sp.start = occ.start /\ sp.end = occ.end)
                            <=> /\ Bounded(hl_text, occ.start, occ.end)
                                /\ \A ev \in EvidenceSpans : ~Intersect(occ, ev)

\* the entries that are neither empty nor whitespace-only
RECURSIVE non_blank(_)
non_blank(entries) ==
    IF entries = <<>> THEN <<>>
    ELSE IF strip(Head(entries)) = <<>>
         THEN non_blank(Tail(entries))
         ELSE <<Head(entries)>> \o non_blank(Tail(entries))

\* C9: empty and whitespace-only entries of either list contribute nothing:
\* the output is the output for the lists without them.
C9_BlankEntriesSkipped ==
    hl_out.run =>
       hl_out.html = highlight_text(hl_text, non_blank(hl_keywords),
                                    non_blank(hl_evidence)).html

\* C10: the cursor of the walk never moves back and no character of the text
\* is emitted more than once.
C10_CursorForwardNoRepeat ==
    hl_out.run =>
       /\ \A k \in 1..(Len(hl_out.cursor) - 1) : hl_out.cursor[k] <= hl_out.cursor[k + 1]
       /\ \A i, j \in 1..Len(hl_out.emitted) :
             i < j => ~Intersect(hl_out.emitted[i], hl_out.emitted[j])

\* ---------------------------------------------------------------------------
\* C11: whenever the main annotation interface is rendered (setup_complete is
\* true) a document is loaded and current_index is a valid index into its
\* notes: 0 <= current_index < number of notes, whatever sequence of Start
\* Annotation, Previous, Next, note selection, Submit Annotation, Change Setup
\* and uploads (a shorter document, an empty notes list) led there.
C11_CurrentIndexValid ==
    setup_complete =>
        /\ data # None
        /\ 0 <= current_index
        /\ current_index < Len(data.notes)

====
